---- MODULE Spec2Model ----
(***************************************************************************)
(* A model of jetstream's publish gate (src/jetstream/publisher.py), of   *)
(* the validation run that consumes it (src/jetstream/testing.py) and of  *)
(* the command line that drives both (src/jetstream/cli.py).              *)
(*                                                                         *)
(* Decoded JSON values are tagged records.  A Python dict keeps its        *)
(* insertion order, so a mapping is a SEQUENCE of key/value pairs; the     *)
(* order matters because _updated compares OrderedDicts, whose equality is *)
(* order sensitive.                                                        *)
(***************************************************************************)
EXTENDS Integers, Sequences, FiniteSets, TLC

VARIABLES
    \* remove_metadata / _updated applied to a pair of decoded documents
    arg_current,        \* the existing document as passed in
    arg_new,            \* the candidate document as passed in
    current_template,   \* the existing document, mutated in place
    new_template,       \* the candidate document, mutated in place
    cmp_pc,             \* "idle", "loaded", "stripped", "raised", "compared"
    cmp_stripped,       \* whether remove_metadata ran before _updated
    cmp_result,         \* what _updated returned
    \* a publisher and its destination
    publisher,          \* the publisher object: its kind and its path
    dest,               \* the destination: file path or object key -> text
    last_call,          \* the last call made on the publisher
    \* Test._wait_results
    poll_pc,            \* "idle", "poll", "sleep", "returned"
    stack_failure,      \* the local stack_failure
    observed,           \* the statuses describe_stacks has returned
    logged,             \* the calls of _log_failed_stacks
    run_result,         \* what _wait_results returned
    \* _flatten_templates
    graph,              \* the template objects: their names and dependencies
    templates,          \* the list passed to _flatten_templates
    flattened_templ,    \* the flattened templates, name -> template object
    flat_pc,            \* "idle", "start", "flattened"
    \* two runs at once: publishing one name to a shared destination, or
    \* validating in one account
    runs,               \* each run's position and what it holds
    \* one run of the command line (_execute)
    args,               \* the parsed arguments
    cli_pc,             \* the position in _execute and in Test.run
    updated_templates,  \* the templates newer reported as changed
    updated_documentation,
    test_passed,        \* the local test_passed
    test_publisher,     \* Test.publisher
    stage,              \* the test bucket or staging directory
    uploaded,           \* publish_file calls Test.run has made
    remote_calls,       \* the remote calls of Test.run and Test.cleanup
    cleanups,           \* the calls of Test.cleanup
    publish_calls,      \* the names passed to publish.publish_file
    exit_code           \* "running", or the status the process exited with

cmpVars == <<arg_current, arg_new, current_template, new_template, cmp_pc,
             cmp_stripped, cmp_result>>
pubVars == <<publisher, dest, last_call>>
pollVars == <<poll_pc, stack_failure, observed, logged, run_result>>
flatVars == <<graph, templates, flattened_templ, flat_pc>>
raceVars == <<runs>>
cliVars == <<args, cli_pc, updated_templates, updated_documentation,
             test_passed, test_publisher, stage, uploaded, remote_calls,
             cleanups, publish_calls, exit_code>>
vars == <<cmpVars, pubVars, pollVars, flatVars, raceVars, cliVars>>

\* ------------------------------------------------------------------------
\* Bounds of the model
\* ------------------------------------------------------------------------
MaxLen == 2       \* longest sequence (JSON array) drawn as an input
MaxPolls == 4     \* describe_stacks calls in one run of _wait_results

\* ------------------------------------------------------------------------
\* Python values
\* ------------------------------------------------------------------------
PyInt(n)   == [t |-> "int", n |-> n]
PyFloat(n) == [t |-> "float", f |-> n]
PyBool(b)  == [t |-> "bool", b |-> b]
PyStr(s)   == [t |-> "str", s |-> s]
PyNone     == [t |-> "NoneType"]
PyList(xs) == [t |-> "list", items |-> xs]
PyDict(ps) == [t |-> "dict", pairs |-> ps]
PyOrderedDict(ps) == [t |-> "OrderedDict", pairs |-> ps]
KV(k, v)   == [k |-> k, v |-> v]

IsDict(x) == x.t \in {"dict", "OrderedDict"}
IsNumber(x) == x.t \in {"int", "float", "bool"}

\* isinstance(a, type(b)): bool is a subclass of int, OrderedDict of dict
IsInstanceOfTypeOf(a, b) ==
    \/ a.t = b.t
    \/ a.t = "bool" /\ b.t = "int"
    \/ a.t = "OrderedDict" /\ b.t = "dict"

NumberValue(x) ==
    CASE x.t = "int" -> x.n
      [] x.t = "float" -> x.f
      [] x.t = "bool" -> IF x.b THEN 1 ELSE 0

Keys(d) == {d.pairs[i].k : i \in DOMAIN d.pairs}
KeySeq(d) == [i \in DOMAIN d.pairs |-> d.pairs[i].k]
HasKey(d, key) == key \in Keys(d)
Get(d, key) == d.pairs[CHOOSE i \in DOMAIN d.pairs : d.pairs[i].k = key].v
\* del d[key]
Del(d, key) ==
    LET keep(p) == p.k # key
    IN  [d EXCEPT !.pairs = SelectSeq(d.pairs, keep)]
\* d[key] = value, for a key d already holds (the key keeps its position)
Put(d, key, value) ==
    [d EXCEPT !.pairs = [i \in DOMAIN d.pairs |->
        IF d.pairs[i].k = key THEN KV(key, value) ELSE d.pairs[i]]]

\* The keys of the model in Python's string order (uppercase before lowercase)
KeyOrder == <<"A", "B", "Jetstream", "Metadata", "Other", "Resources",
              "X", "Y", "build">>
KeyRank(key) == CHOOSE i \in DOMAIN KeyOrder : KeyOrder[i] = key

\* a == b on decoded values
RECURSIVE PyEq(_, _)

\* a comparison of two lists that stops one element early
ListEqSkipsLast(a, b) ==
    /\ Len(a.items) = Len(b.items)
    /\ \A i \in 1..(Len(a.items) - 1) : PyEq(a.items[i], b.items[i])

\* list == list: equal lengths and equal elements at every index
ListEq(a, b) ==
    /\ Len(a.items) = Len(b.items)
    /\ \A i \in DOMAIN a.items : PyEq(a.items[i], b.items[i])

\* dict == dict ignores the order of the keys; OrderedDict == OrderedDict
\* does not
DictEq(a, b) ==
    /\ Keys(a) = Keys(b)
    /\ \A key \in Keys(a) : PyEq(Get(a, key), Get(b, key))
    /\ (a.t = "OrderedDict" /\ b.t = "OrderedDict") => KeySeq(a) = KeySeq(b)

PyEq(a, b) ==
    CASE IsNumber(a) /\ IsNumber(b) -> NumberValue(a) = NumberValue(b)
      [] a.t = "str" /\ b.t = "str" -> a.s = b.s
      [] a.t = "NoneType" /\ b.t = "NoneType" -> TRUE
      [] a.t = "list" /\ b.t = "list" -> ListEq(a, b)
      [] IsDict(a) /\ IsDict(b) -> DictEq(a, b)
      [] OTHER -> FALSE

\* sorted(dikt.items()): insertion of one pair into a sequence sorted by key
RECURSIVE InsertSorted(_, _)
InsertSorted(p, ps) ==
    IF ps = <<>> THEN <<p>>
    ELSE IF KeyRank(p.k) <= KeyRank(Head(ps).k) THEN <<p>> \o ps
    ELSE <<Head(ps)>> \o InsertSorted(p, Tail(ps))

RECURSIVE SortedPairs(_)
SortedPairs(ps) ==
    IF ps = <<>> THEN <<>>
    ELSE InsertSorted(Head(ps), SortedPairs(Tail(ps)))

RECURSIVE _sort_dict(_)

\* the loop of _sort_dict: every value that is a dict is replaced, in place,
\* by its sorted OrderedDict
SortNested(dikt) ==
    [dikt EXCEPT !.pairs = [i \in DOMAIN dikt.pairs |->
        IF IsDict(dikt.pairs[i].v)
        THEN KV(dikt.pairs[i].k, _sort_dict(dikt.pairs[i].v))
        ELSE dikt.pairs[i]]]

\* _sort_dict without the sort of the items
_sort_dict_unsorted(dikt) == PyOrderedDict(SortNested(dikt).pairs)

_sort_dict(dikt) == PyOrderedDict(SortedPairs(SortNested(dikt).pairs))

_updated(a, b) ==
    IF ~IsInstanceOfTypeOf(a, b) THEN TRUE
    ELSE IF IsDict(a) THEN ~PyEq(_sort_dict(a), _sort_dict(b))
    ELSE ~PyEq(a, b)

\* what _updated leaves of an argument: _sort_dict has replaced its nested
\* dicts
AfterUpdated(a, b, x) ==
    IF IsInstanceOfTypeOf(a, b) /\ IsDict(a) THEN SortNested(x) ELSE x

\* ------------------------------------------------------------------------
\* remove_metadata
\* ------------------------------------------------------------------------
TOPLEVEL_METADATA_KEY == "Jetstream"

\* x.keys() raises AttributeError unless x is a mapping
KeysRaises(d) ==
    \/ ~IsDict(d)
    \/ HasKey(d, "Metadata") /\ ~IsDict(Get(d, "Metadata"))

\* a strip that leaves the volatile sub-key where it is
StripVolatileKept(d) == d

\* a strip that takes the whole Metadata section with the volatile sub-key
StripVolatileWhole(d) ==
    IF HasKey(d, "Metadata")
       /\ HasKey(Get(d, "Metadata"), TOPLEVEL_METADATA_KEY)
    THEN Del(d, "Metadata")
    ELSE d

\* if 'Metadata' in t.keys() and KEY in t['Metadata'].keys(): del ...
StripVolatile(d) ==
    IF HasKey(d, "Metadata")
       /\ HasKey(Get(d, "Metadata"), TOPLEVEL_METADATA_KEY)
    THEN Put(d, "Metadata", Del(Get(d, "Metadata"), TOPLEVEL_METADATA_KEY))
    ELSE d

\* a removal of the emptied section that does not look at the existing template
DropEmptyMetadataAlways(current, new) ==
    IF HasKey(new, "Metadata") /\ Keys(Get(new, "Metadata")) = {}
    THEN Del(new, "Metadata")
    ELSE new

\* the emptied Metadata section goes when the existing template has none
DropEmptyMetadata(current, new) ==
    IF ~HasKey(current, "Metadata")
    THEN IF HasKey(new, "Metadata") /\ Keys(Get(new, "Metadata")) = {}
         THEN Del(new, "Metadata")
         ELSE new
    ELSE new

\* Both arguments are mutated in place; the result holds them as they are
\* when the call returns or raises.
remove_metadata(current, new) ==
    IF KeysRaises(current)
    THEN [raised |-> TRUE, current |-> current, new |-> new]
    ELSE LET c1 == StripVolatile(current)
         IN  IF KeysRaises(new)
             THEN [raised |-> TRUE, current |-> c1, new |-> new]
             ELSE [raised |-> FALSE, current |-> c1,
                   new |-> DropEmptyMetadata(c1, StripVolatile(new))]

\* ------------------------------------------------------------------------
\* Texts and json.loads
\* ------------------------------------------------------------------------
\* A text that parses as JSON is its syntax tree (an object may repeat a
\* key) and its layout (whitespace); a text that does not parse carries
\* the message of the ValueError the decoder raises on it.
JsonText(syn, layout) == [ok |-> TRUE, syn |-> syn, layout |-> layout]
BadText(msg, id) == [ok |-> FALSE, msg |-> msg, id |-> id]

\* the members of an object: a repeated key keeps its first place and takes
\* its last value
LastWins(ps) ==
    LET first == {i \in DOMAIN ps : \A j \in 1..(i - 1) : ps[j].k # ps[i].k}
        lastOf(key) == CHOOSE i \in DOMAIN ps :
                          /\ ps[i].k = key
                          /\ \A j \in DOMAIN ps : ps[j].k = key => j <= i
        keep(q) == q.i \in first
        indexed == [i \in DOMAIN ps |-> [i |-> i, k |-> ps[i].k]]
        kept == SelectSeq(indexed, keep)
    IN  [n \in DOMAIN kept |-> KV(kept[n].k, ps[lastOf(kept[n].k)].v)]

RECURSIVE Decode(_)
Decode(syn) ==
    CASE syn.t = "list" ->
            PyList([i \in DOMAIN syn.items |-> Decode(syn.items[i])])
      [] syn.t = "dict" ->
            LET ps == LastWins(syn.pairs)
            IN  PyDict([i \in DOMAIN ps |-> KV(ps[i].k, Decode(ps[i].v))])
      [] OTHER -> syn

\* json.loads(text) / json.load(file)
json_loads(text) ==
    IF text.ok
    THEN [raised |-> FALSE, value |-> Decode(text.syn)]
    ELSE [raised |-> TRUE, msg |-> text.msg]

\* ------------------------------------------------------------------------
\* Paths
\* ------------------------------------------------------------------------
Path(abs, comps) == [abs |-> abs, comps |-> comps]

\* os.path.join(a, b)
Join(a, b) ==
    IF b.abs THEN b ELSE Path(a.abs, a.comps \o b.comps)

Cwd == <<"cwd">>
NotDot(c) == c # "."
\* the file a path names: relative paths start at the working directory
Resolve(p) ==
    (IF p.abs THEN <<>> ELSE Cwd) \o SelectSeq(p.comps, NotDot)

IsPrefix(s, q) == Len(s) <= Len(q) /\ SubSeq(q, 1, Len(s)) = s

Absent == [absent |-> TRUE]
Content(d, r) == IF r \in DOMAIN d THEN d[r] ELSE Absent
Store(d, r, text) ==
    [q \in DOMAIN d \cup {r} |-> IF q = r THEN text ELSE d[q]]

\* a read that fails for another reason than not-found reports the failure
\* as not-found
OpenReadDeniedAsMissing(d, base, file_path, fault) ==
    IF Resolve(file_path) \in DOMAIN d /\ fault = "none" THEN "ok"
    ELSE "ENOENT"

\* open(file_path, 'r'): the errno of the IOError, or "ok"
OpenRead(d, base, file_path, fault) ==
    LET r == Resolve(file_path)
    IN  IF fault # "none" THEN "EACCES"
        ELSE IF r \in DOMAIN d THEN "ok"
        ELSE IF \E f \in DOMAIN d : IsPrefix(f, r) THEN "ENOTDIR"
        ELSE IF IsPrefix(r, Resolve(base)) THEN "EISDIR"
        ELSE "ENOENT"

\* ------------------------------------------------------------------------
\* Inputs of the comparison: decoded documents
\* ------------------------------------------------------------------------
Range(f) == {f[i] : i \in DOMAIN f}

\* every ordering of every subset of S
Arrangements(S) ==
    {ks \in UNION {[1..n -> S] : n \in 0..Cardinality(S)} :
        \A i, j \in DOMAIN ks : i # j => ks[i] # ks[j]}

\* every dict whose keys are an arrangement of keys, the value of key k
\* drawn from valuesOf[k]
DictsOver(keys, valuesOf) ==
    UNION {
        {PyDict([i \in DOMAIN ks |-> KV(ks[i], f[ks[i]])]) :
            f \in {g \in [Range(ks) -> UNION {valuesOf[k] : k \in keys}] :
                      \A k \in Range(ks) : g[k] \in valuesOf[k]}}
        : ks \in Arrangements(keys)}

SeqsUpTo(S, n) == UNION {[1..m -> S] : m \in 0..n}

BuildInfo == {PyDict(<<KV("build", PyStr("abc"))>>),
              PyDict(<<KV("build", PyStr("def"))>>)}
MetadataValuesOf ==
    [k \in {"Jetstream", "Other"} |->
        IF k = "Jetstream" THEN BuildInfo ELSE {PyInt(1)}]
\* the Metadata sections, one of them not a mapping
MetadataSections ==
    DictsOver({"Jetstream", "Other"}, MetadataValuesOf) \cup {PyStr("none")}
TemplateValuesOf ==
    [k \in {"Metadata", "Resources"} |->
        IF k = "Metadata" THEN MetadataSections ELSE {PyInt(1), PyInt(2)}]
\* mapping-rooted templates with and without a Metadata section
Templates == DictsOver({"Metadata", "Resources"}, TemplateValuesOf)

Scalars == {PyInt(1), PyInt(2), PyFloat(1), PyBool(TRUE), PyStr("1"), PyNone}
LeafValuesOf == [k \in {"X", "Y"} |-> {PyInt(1), PyInt(2)}]
FlatDicts == {d \in DictsOver({"X", "Y"}, LeafValuesOf) : Len(d.pairs) = 2}
NestedValuesOf ==
    [k \in {"X", "Y"} |-> IF k = "X" THEN {PyInt(1)} ELSE FlatDicts]
NestedDicts ==
    {d \in DictsOver({"X", "Y"}, NestedValuesOf) : Len(d.pairs) = 2}
\* sequences of numbers and of mappings, in both key orders
Lists == {PyList(xs) : xs \in SeqsUpTo({PyInt(1), PyInt(2)} \cup
              {d \in FlatDicts : Get(d, "X") = PyInt(1)
                                 /\ Get(d, "Y") = PyInt(2)}, MaxLen)}
DocumentValuesOf ==
    [k \in {"A", "B"} |->
        IF k = "A"
        THEN {PyInt(1)}
             \cup {d \in NestedDicts : /\ Get(Get(d, "Y"), "X") = PyInt(1)
                                       /\ Get(Get(d, "Y"), "Y") = PyInt(2)}
             \cup {l \in Lists : /\ Len(l.items) = MaxLen
                                 /\ PyInt(2) \notin Range(l.items)}
        ELSE {PyInt(1), PyInt(2)}]
\* documents with nested mappings and sequences
Documents == DictsOver({"A", "B"}, DocumentValuesOf)

InitPublishIdle ==
    /\ publisher = [kind |-> "none"]
    /\ dest = <<>>
    /\ last_call = [op |-> "none"]

InitPollIdle ==
    /\ poll_pc = "idle"
    /\ stack_failure = FALSE
    /\ observed = <<>>
    /\ logged = 0
    /\ run_result = FALSE

InitFlattenIdle ==
    /\ graph = [name |-> <<>>, groups |-> <<>>, added |-> <<>>]
    /\ templates = <<>>
    /\ flattened_templ = PyDict(<<>>)
    /\ flat_pc = "idle"

InitRaceIdle == runs = <<>>

InitCliIdle ==
    /\ args = [test |-> FALSE]
    /\ cli_pc = "idle"
    /\ updated_templates = <<>>
    /\ updated_documentation = <<>>
    /\ test_passed = TRUE
    /\ test_publisher = [kind |-> "none"]
    /\ stage = <<>>
    /\ uploaded = 0
    /\ remote_calls = <<>>
    /\ cleanups = 0
    /\ publish_calls = <<>>
    /\ exit_code = "running"

\* the pairs (existing, candidate) the comparison is run on
InputPairs ==
    (Templates \X Templates)
        \cup ((Scalars \cup Lists \cup Documents)
                 \X (Scalars \cup Lists \cup Documents))

\* ------------------------------------------------------------------------
\* The comparison as newer runs it: remove_metadata, then _updated
\* ------------------------------------------------------------------------
InitCompare ==
    /\ \E p \in InputPairs :
          /\ arg_current = p[1]
          /\ arg_new = p[2]
          /\ current_template = p[1]
          /\ new_template = p[2]
    /\ cmp_pc = "loaded"
    /\ cmp_stripped = FALSE
    /\ cmp_result = FALSE
    /\ InitPublishIdle
    /\ InitPollIdle
    /\ InitFlattenIdle
    /\ InitRaceIdle
    /\ InitCliIdle

RemoveMetadata ==
    /\ cmp_pc = "loaded"
    /\ LET r == remove_metadata(current_template, new_template)
       IN  /\ current_template' = r.current
           /\ new_template' = r.new
           /\ cmp_pc' = IF r.raised THEN "raised" ELSE "stripped"
           /\ cmp_stripped' = ~r.raised
    /\ UNCHANGED <<arg_current, arg_new, cmp_result, pubVars, pollVars,
                   flatVars, raceVars, cliVars>>

\* _updated(latest_obj, existing): the candidate is the first argument
Updated ==
    /\ cmp_pc \in {"loaded", "stripped"}
    /\ cmp_result' = _updated(new_template, current_template)
    /\ new_template' =
          AfterUpdated(new_template, current_template, new_template)
    /\ current_template' =
          AfterUpdated(new_template, current_template, current_template)
    /\ cmp_pc' = "compared"
    /\ UNCHANGED <<arg_current, arg_new, cmp_stripped, pubVars, pollVars,
                   flatVars, raceVars, cliVars>>

NextCompare == RemoveMetadata \/ Updated

SpecCompare == InitCompare /\ [][NextCompare]_vars

\* ------------------------------------------------------------------------
\* Properties of the comparison
\* ------------------------------------------------------------------------
\* Structural equality of two decoded values: the same shape and the same
\* scalars, whatever the order of the keys at any level.
RECURSIVE SameValue(_, _)
SameValue(a, b) ==
    /\ a.t = b.t
    /\ CASE a.t = "list" ->
                /\ Len(a.items) = Len(b.items)
                /\ \A i \in DOMAIN a.items : SameValue(a.items[i], b.items[i])
         [] IsDict(a) ->
                /\ Keys(a) = Keys(b)
                /\ \A key \in Keys(a) : SameValue(Get(a, key), Get(b, key))
         [] OTHER -> a = b

HasVolatile(d) ==
    /\ IsDict(d)
    /\ HasKey(d, "Metadata")
    /\ IsDict(Get(d, "Metadata"))
    /\ HasKey(Get(d, "Metadata"), TOPLEVEL_METADATA_KEY)

\* d with the contents of the volatile sub-key blanked
BlankVolatile(d) ==
    Put(d, "Metadata", Put(Get(d, "Metadata"), TOPLEVEL_METADATA_KEY, PyNone))

\* d with the volatile sub-key, and a Metadata container holding nothing
\* else, disregarded
Disregarded(d) ==
    LET m == Get(d, "Metadata")
        rest == Del(m, TOPLEVEL_METADATA_KEY)
    IN  IF ~HasKey(d, "Metadata") THEN d
        ELSE IF Keys(rest) = {} THEN Del(d, "Metadata")
        ELSE Put(d, "Metadata", rest)

WellFormed(d) == IsDict(d) /\ ~KeysRaises(d)

\* C3: two documents identical once the volatile block (and a Metadata
\* container holding nothing else) is disregarded compare equal, whichever
\* side carries the block.
C3_VolatileNeverInfluences ==
    (/\ cmp_pc = "compared"
     /\ cmp_stripped
     /\ HasVolatile(arg_current) \/ HasVolatile(arg_new)
     /\ Disregarded(arg_current) = Disregarded(arg_new))
        => cmp_result = FALSE

\* C4: two artifacts that both carry the volatile sub-key and are identical
\* except for its contents compare equal after remove_metadata.
C4_VolatileIsolation ==
    (/\ cmp_pc = "compared"
     /\ cmp_stripped
     /\ HasVolatile(arg_current)
     /\ HasVolatile(arg_new)
     /\ BlankVolatile(arg_current) = BlankVolatile(arg_new))
        => cmp_result = FALSE

C4_Witness ==
    /\ cmp_pc = "compared"
    /\ cmp_stripped
    /\ HasVolatile(arg_current)
    /\ HasVolatile(arg_new)
    /\ BlankVolatile(arg_current) = BlankVolatile(arg_new)
    /\ arg_current # arg_new
    /\ cmp_result = FALSE

OnlyVolatile(d) ==
    HasVolatile(d) /\ Keys(Get(d, "Metadata")) = {TOPLEVEL_METADATA_KEY}

\* C5: a candidate whose Metadata holds only the volatile sub-key loses the
\* whole container when the existing document has no Metadata key, and then
\* compares equal to an otherwise identical document; when the existing
\* document has a Metadata key the emptied container stays.
C5_EmptyMetadataAsymmetry ==
    (/\ cmp_pc \in {"stripped", "compared"}
     /\ cmp_stripped
     /\ OnlyVolatile(arg_new))
        => IF ~HasKey(arg_current, "Metadata")
           THEN /\ ~HasKey(new_template, "Metadata")
                /\ (cmp_pc = "compared"
                    /\ Del(arg_new, "Metadata") = arg_current)
                        => cmp_result = FALSE
           ELSE /\ HasKey(new_template, "Metadata")
                /\ Keys(Get(new_template, "Metadata")) = {}

C5_Witness ==
    /\ cmp_pc = "compared"
    /\ cmp_stripped
    /\ OnlyVolatile(arg_new)
    /\ ~HasKey(arg_current, "Metadata")
    /\ HasKey(arg_current, "Resources")
    /\ Del(arg_new, "Metadata") = arg_current
    /\ ~HasKey(new_template, "Metadata")
    /\ cmp_result = FALSE

\* C6: a mapping and a key-order permutation of it (at any nesting level,
\* also inside sequences) compare equal.
C6_OrderIndependence ==
    (/\ cmp_pc = "compared"
     /\ IsDict(arg_current)
     /\ SameValue(arg_current, arg_new))
        => cmp_result = FALSE

C6_Witness ==
    /\ cmp_pc = "compared"
    /\ cmp_stripped
    /\ IsDict(arg_current)
    /\ SameValue(arg_current, arg_new)
    /\ KeySeq(arg_current) # KeySeq(arg_new)
    /\ HasKey(arg_current, "A")
    /\ Get(arg_current, "A").t = "list"
    /\ Get(arg_current, "A") # Get(arg_new, "A")
    /\ cmp_result = FALSE

DifferOnlyAtLast(x, y) ==
    /\ x.t = "list"
    /\ y.t = "list"
    /\ Len(x.items) = Len(y.items)
    /\ Len(x.items) >= 1
    /\ \A i \in 1..(Len(x.items) - 1) : SameValue(x.items[i], y.items[i])
    /\ ~SameValue(x.items[Len(x.items)], y.items[Len(y.items)])

\* C8: two sequences that agree everywhere but at the last index compare
\* unequal, at top level and as the value of a key; two sequences of equal
\* length compare equal only if they agree at every index.
C8_SequenceFullCoverage ==
    cmp_pc = "compared" =>
        /\ DifferOnlyAtLast(arg_current, arg_new) => cmp_result = TRUE
        /\ (/\ IsDict(arg_current)
            /\ IsDict(arg_new)
            /\ \E key \in Keys(arg_current) \cap Keys(arg_new) :
                  DifferOnlyAtLast(Get(arg_current, key), Get(arg_new, key)))
               => cmp_result = TRUE
        /\ (/\ arg_current.t = "list"
            /\ arg_new.t = "list"
            /\ Len(arg_current.items) = Len(arg_new.items)
            /\ cmp_result = FALSE)
               => \A i \in DOMAIN arg_current.items :
                     SameValue(arg_current.items[i], arg_new.items[i])

C8_Witness ==
    /\ cmp_pc = "compared"
    /\ cmp_stripped
    /\ IsDict(arg_current)
    /\ IsDict(arg_new)
    /\ KeySeq(arg_current) = KeySeq(arg_new)
    /\ HasKey(arg_current, "A")
    /\ DifferOnlyAtLast(Get(arg_current, "A"), Get(arg_new, "A"))
    /\ Len(Get(arg_current, "A").items) >= 2
    /\ \A key \in Keys(arg_current) \ {"A"} :
          Get(arg_current, key) = Get(arg_new, key)
    /\ cmp_result = TRUE

\* ------------------------------------------------------------------------
\* The publishers
\* ------------------------------------------------------------------------
Outcome(b) == IF b THEN "true" ELSE "false"

\* LocalPublisher.newer(name, latest): "true", "false" or "raised"
LocalNewer(d, base, name, latest, fault) ==
    LET file_path == Join(base, name)
        errno == OpenRead(d, base, file_path, fault)
        text == d[Resolve(file_path)]
        existing == json_loads(text)
        latest_obj == json_loads(latest)
        rm == remove_metadata(existing.value, latest_obj.value)
    IN  IF errno = "ENOENT" THEN "true"
        ELSE IF errno # "ok" THEN "raised"
        ELSE IF existing.raised \/ latest_obj.raised
        THEN Outcome(_updated(PyStr(latest), PyStr(text)))
        ELSE IF rm.raised THEN "raised"
        ELSE Outcome(_updated(rm.new, rm.current))

\* the object key of a name
S3Key(path, name) ==
    IF path.comps # <<>> THEN Join(path, name).comps ELSE name.comps

\* except ValueError: raise unless the message is the Python 2 decoder's
S3ValueError(msg) ==
    IF msg = "No JSON object could be decoded" THEN "true" ELSE "raised"

\* S3Publisher.newer(name, latest): "true", "false" or "raised"
S3Newer(d, path, name, latest, fault) ==
    LET key == S3Key(path, name)
        body_obj == json_loads(d[key])
        latest_obj == json_loads(latest)
        rm == remove_metadata(body_obj.value, latest_obj.value)
    IN  IF fault # "none" THEN "raised"
        ELSE IF key \notin DOMAIN d THEN "true"
        ELSE IF body_obj.raised THEN S3ValueError(body_obj.msg)
        ELSE IF latest_obj.raised THEN S3ValueError(latest_obj.msg)
        ELSE IF rm.raised THEN "raised"
        ELSE Outcome(_updated(rm.new, rm.current))

\* publisher.newer(name, latest)
Newer(pub, d, name, latest, fault) ==
    IF pub.kind = "local"
    THEN LocalNewer(d, pub.path, name, latest, fault)
    ELSE S3Newer(d, pub.path, name, latest, fault)

\* where publish_file writes name
Target(pub, name) ==
    IF pub.kind = "local"
    THEN Resolve(Join(pub.path, name))
    ELSE S3Key(pub.path, name)

\* the newer check publish_file makes: LocalPublisher passes the joined
\* file path as the name, S3Publisher the name
PublishCheck(pub, d, name, contents, fault) ==
    IF pub.kind = "local"
    THEN LocalNewer(d, pub.path, Join(pub.path, name), contents, fault)
    ELSE S3Newer(d, pub.path, name, contents, fault)

\* publisher.publish_file(name, contents): the check it made, whether it
\* wrote, and the destination afterwards
publish_file(pub, d, name, contents, fault) ==
    LET check == PublishCheck(pub, d, name, contents, fault)
    IN  [newer |-> check,
         wrote |-> check = "true",
         dest |-> IF check = "true"
                  THEN Store(d, Target(pub, name), contents)
                  ELSE d]

\* ------------------------------------------------------------------------
\* Calls on one publisher
\* ------------------------------------------------------------------------
Names == {Path(FALSE, <<"art">>), Path(FALSE, <<"ec2.template">>)}

Resources(n) == KV("Resources", PyInt(n))
Volatile(build) ==
    KV("Metadata", PyDict(<<KV(TOPLEVEL_METADATA_KEY,
                               PyDict(<<KV("build", PyStr(build))>>))>>))
\* two texts of one document, a document that differs from it and carries
\* the volatile block, a document that is no mapping, and two texts that
\* are not JSON (a Markdown document, a truncated template)
PubTexts ==
    { JsonText(PyDict(<<Resources(1)>>), 0),
      JsonText(PyDict(<<Resources(2), Resources(1)>>), 0),
      JsonText(PyDict(<<Volatile("abc"), Resources(2)>>), 0),
      JsonText(PyList(<<PyInt(1)>>), 0),
      BadText("No JSON object could be decoded", 1),
      BadText("Expecting value", 2) }

Faults == {"none", "denied"}

Publishers ==
    { [kind |-> "local", path |-> Path(TRUE, <<"art">>)],
      [kind |-> "local", path |-> Path(FALSE, <<"art">>)],
      [kind |-> "local", path |-> Path(FALSE, <<".">>)],
      [kind |-> "s3", path |-> Path(FALSE, <<>>)],
      [kind |-> "s3", path |-> Path(FALSE, <<"prefix">>)] }

Call(op, name, contents, fault, newer, wrote) ==
    [op |-> op, name |-> name, contents |-> contents, fault |-> fault,
     \* what the destination held under the name before the call
     before |-> Content(dest, Target(publisher, name)),
     \* what publisher.newer(name, contents) answers before the call
     direct |-> Newer(publisher, dest, name, contents, "none"),
     newer |-> newer, wrote |-> wrote]

InitCompareIdle ==
    /\ arg_current = PyNone
    /\ arg_new = PyNone
    /\ current_template = PyNone
    /\ new_template = PyNone
    /\ cmp_pc = "idle"
    /\ cmp_stripped = FALSE
    /\ cmp_result = FALSE

InitPublish ==
    /\ publisher \in Publishers
    /\ dest = <<>>
    /\ last_call = [op |-> "none"]
    /\ InitCompareIdle
    /\ InitPollIdle
    /\ InitFlattenIdle
    /\ InitRaceIdle
    /\ InitCliIdle

CallNewer ==
    /\ \E name \in Names, contents \in PubTexts, fault \in Faults :
          last_call' = Call("newer", name, contents, fault,
                            Newer(publisher, dest, name, contents, fault),
                            FALSE)
    /\ UNCHANGED <<publisher, dest, cmpVars, pollVars, flatVars, raceVars,
                   cliVars>>

CallPublishFile ==
    /\ \E name \in Names, contents \in PubTexts, fault \in Faults :
          LET r == publish_file(publisher, dest, name, contents, fault)
          IN  /\ dest' = r.dest
              /\ last_call' = Call("publish_file", name, contents, fault,
                                    r.newer, r.wrote)
    /\ UNCHANGED <<publisher, cmpVars, pollVars, flatVars, raceVars, cliVars>>

NextPublish == CallNewer \/ CallPublishFile

SpecPublish == InitPublish /\ [][NextPublish]_vars

\* ------------------------------------------------------------------------
\* Test._wait_results
\* ------------------------------------------------------------------------
\* A stack status is the sequence of its words: CREATE_IN_PROGRESS is
\* <<"CREATE", "IN", "PROGRESS">>.
StackStatuses ==
    { <<"CREATE", "IN", "PROGRESS">>, <<"CREATE", "FAILED">>,
      <<"CREATE", "COMPLETE">>, <<"ROLLBACK", "IN", "PROGRESS">>,
      <<"ROLLBACK", "FAILED">>, <<"ROLLBACK", "COMPLETE">>,
      <<"DELETE", "IN", "PROGRESS">> }

\* a marker is looked for in the first word of the status only
InFirstWord(marker, status) == marker = SubSeq(status, 1, 1)

\* a marker is found only when it is the whole status
InWholeStatus(marker, status) == marker = status

\* marker in status
In(marker, status) ==
    \E i \in 1..(Len(status) - Len(marker) + 1) :
        SubSeq(status, i, i + Len(marker) - 1) = marker

InitPoll ==
    /\ poll_pc = "poll"
    /\ stack_failure = FALSE
    /\ observed = <<>>
    /\ logged = 0
    /\ run_result = FALSE
    /\ InitCompareIdle
    /\ InitPublishIdle
    /\ InitFlattenIdle
    /\ InitRaceIdle
    /\ InitCliIdle

\* the loop body on the status describe_stacks returns; seen is the
\* history of the statuses once it is observed
PollStatus(stack_status, seen) ==
    LET fails == In(<<"ROLLBACK">>, stack_status) /\ ~stack_failure
    IN  /\ observed' = seen
        /\ IF In(<<"COMPLETE">>, stack_status)
           THEN /\ poll_pc' = "returned"
                /\ run_result' = ~stack_failure
                /\ UNCHANGED <<stack_failure, logged>>
           ELSE /\ stack_failure' = (stack_failure \/ fails)
                /\ logged' = IF fails THEN logged + 1 ELSE logged
                /\ IF In(<<"ROLLBACK", "FAILED">>, stack_status)
                   THEN /\ poll_pc' = "returned"
                        /\ run_result' = ~stack_failure'
                   ELSE /\ poll_pc' = "sleep"
                        /\ UNCHANGED run_result

\* one pass of the loop body: describe_stacks, then break or go to sleep
Poll ==
    /\ poll_pc = "poll"
    /\ Len(observed) < MaxPolls
    /\ \E stack_status \in StackStatuses :
          PollStatus(stack_status, Append(observed, stack_status))
    /\ UNCHANGED <<cmpVars, pubVars, flatVars, raceVars, cliVars>>

\* time.sleep(10)
Sleep ==
    /\ poll_pc = "sleep"
    /\ poll_pc' = "poll"
    /\ UNCHANGED <<stack_failure, observed, logged, run_result, cmpVars,
                   pubVars, flatVars, raceVars, cliVars>>

NextPoll == Poll \/ Sleep

SpecPoll == InitPoll /\ [][NextPoll]_vars

\* A stack whose status settles: the service reports statuses that may
\* change until it reports a final one, CloudFormation's ..._COMPLETE and
\* ..._FAILED, and reports that one ever after.
Final(status) == status[Len(status)] \in {"COMPLETE", "FAILED"}

\* a pass on a stack that has not settled; the status settles within
\* MaxPolls passes
PollFresh ==
    /\ poll_pc = "poll"
    /\ Len(observed) < MaxPolls
    /\ observed # <<>> => ~Final(observed[Len(observed)])
    /\ \E stack_status \in StackStatuses :
          /\ Len(observed) + 1 = MaxPolls => Final(stack_status)
          /\ PollStatus(stack_status, Append(observed, stack_status))
    /\ UNCHANGED <<cmpVars, pubVars, flatVars, raceVars, cliVars>>

\* a pass on a stack that has settled: the status observed last is
\* observed again
PollStable ==
    /\ poll_pc = "poll"
    /\ observed # <<>>
    /\ Final(observed[Len(observed)])
    /\ PollStatus(observed[Len(observed)], observed)
    /\ UNCHANGED <<cmpVars, pubVars, flatVars, raceVars, cliVars>>

NextPollFair == PollFresh \/ PollStable \/ Sleep

\* describe_stacks answers and time.sleep(10) ends: the one thread of the
\* loop always takes its next step
SpecPollFair ==
    /\ InitPoll
    /\ [][NextPollFair]_vars
    /\ WF_vars(PollFresh \/ PollStable)
    /\ WF_vars(Sleep)

\* C2: the run returns true iff no status holding ROLLBACK was observed by
\* a poll, also when the first such status is ROLLBACK_COMPLETE.
C2_TrueIffNoRollbackObserved ==
    poll_pc = "returned" =>
        (run_result <=> \A i \in DOMAIN observed :
                           ~In(<<"ROLLBACK">>, observed[i]))

\* ------------------------------------------------------------------------
\* Properties of the publishers
\* ------------------------------------------------------------------------
WellFormedText(text) == text.ok /\ WellFormed(Decode(text.syn))

\* C1: publish_file(name, X) called twice in succession on a destination
\* that newer(name, X) reports as not holding X performs exactly one write,
\* and the second call's newer check answers false.
C1_PublishIdempotent ==
    [][(/\ last_call.op = "publish_file"
        /\ last_call'.op = "publish_file"
        /\ last_call.fault = "none"
        /\ last_call'.fault = "none"
        /\ last_call'.name = last_call.name
        /\ last_call'.contents = last_call.contents
        /\ WellFormedText(last_call.contents)
        /\ last_call.direct = "true")
           => (/\ last_call.wrote
               /\ ~last_call'.wrote
               /\ last_call'.newer = "false")]_vars

\* C7: when nothing is stored under the name, newer answers true for any
\* contents and publish_file writes them.
C7_NewArtifactAlwaysPublishes ==
    (/\ last_call.op # "none"
     /\ last_call.fault = "none"
     /\ last_call.before = Absent)
        => /\ last_call.direct = "true"
           /\ last_call.op = "newer" => last_call.newer = "true"
           /\ last_call.op = "publish_file" => last_call.wrote

\* C9: when the stored object does not decode, newer compares the raw
\* texts: true iff they differ, never an error.
C9_RawFallback ==
    (/\ last_call.op = "newer"
     /\ last_call.fault = "none"
     /\ last_call.before # Absent
     /\ ~last_call.before.ok)
        => last_call.newer = Outcome(last_call.before # last_call.contents)

\* C10: when the stored object decodes and the candidate does not, newer
\* raises; it never answers true or false.
C10_MalformedCandidateIsFatal ==
    (/\ last_call.op = "newer"
     /\ last_call.fault = "none"
     /\ last_call.before # Absent
     /\ last_call.before.ok
     /\ ~last_call.contents.ok)
        => last_call.newer = "raised"

\* the read the call's newer check makes on the destination fails for
\* another reason than not-found: access is denied, or a component of the
\* path read is a file
ReadFails(pub, d, op, name, fault) ==
    \/ fault # "none"
    \/ /\ pub.kind = "local"
       /\ LET checked == IF op = "publish_file"
                         THEN Join(pub.path, name) ELSE name
              r == Resolve(Join(pub.path, checked))
          IN  \E f \in DOMAIN d : f # r /\ IsPrefix(f, r)

\* C11: a read error other than not-found, met while newer reads the stored
\* object, propagates out of newer and out of publish_file; it is never
\* answered with true or false, and publish_file writes nothing.
C11_ReadErrorPropagates ==
    [][(/\ last_call'.op # "none"
        /\ ReadFails(publisher, dest, last_call'.op, last_call'.name,
                     last_call'.fault))
           => (/\ last_call'.newer = "raised"
               /\ ~last_call'.wrote
               /\ dest' = dest)]_vars

C11_Witness ==
    /\ last_call.op = "publish_file"
    /\ last_call.fault = "denied"
    /\ last_call.before # Absent
    /\ last_call.newer = "raised"
    /\ ~last_call.wrote

\* a destination of the publisher that holds the content under the name and
\* nothing else
Holding(pub, name, content) ==
    IF content = Absent THEN <<>>
    ELSE Store(<<>>, Target(pub, name), content)

\* C12: the two backends give the same answer: whatever is stored under the
\* name (nothing, a text that decodes, a text that does not) and whatever
\* the candidate, every publisher's newer answers as this one's did.
C12_BackendsAgree ==
    (/\ last_call.op = "newer"
     /\ last_call.fault = "none")
        => \A other \in Publishers :
              Newer(other, Holding(other, last_call.name, last_call.before),
                    last_call.name, last_call.contents, "none")
                 = last_call.newer

\* C13: publish_file(name, contents) writes exactly when newer(name,
\* contents) answers true on the same destination, and when newer answers
\* false it neither writes nor raises.
C13_GateConsistency ==
    (/\ last_call.op = "publish_file"
     /\ last_call.fault = "none")
        => /\ last_call.wrote <=> last_call.direct = "true"
           /\ last_call.direct = "false" => last_call.newer = "false"

\* ------------------------------------------------------------------------
\* Properties of Test._wait_results
\* ------------------------------------------------------------------------
Mentions(word, status) == \E i \in DOMAIN status : status[i] = word
Terminal(status) ==
    Mentions("COMPLETE", status) \/ status = <<"ROLLBACK", "FAILED">>

\* C20: once a poll has observed a rollback status that is not terminal,
\* the failure flag stays set, polling goes on until a status holding
\* COMPLETE or ROLLBACK_FAILED is observed, and the result is false
\* whatever is observed afterwards.
C20_FailureIsSticky ==
    (\E i \in DOMAIN observed :
        Mentions("ROLLBACK", observed[i]) /\ ~Terminal(observed[i]))
        => /\ stack_failure
           /\ \A i \in 1..(Len(observed) - 1) : ~Terminal(observed[i])
           /\ poll_pc = "returned"
                => ~run_result /\ Terminal(observed[Len(observed)])
           /\ poll_pc # "returned" => ~Terminal(observed[Len(observed)])

C20_Witness ==
    /\ poll_pc = "returned"
    /\ Len(observed) >= 3
    /\ observed[1] = <<"ROLLBACK", "IN", "PROGRESS">>
    /\ observed[2] = <<"CREATE", "IN", "PROGRESS">>
    /\ observed[Len(observed)] = <<"CREATE", "COMPLETE">>
    /\ ~run_result

\* ------------------------------------------------------------------------
\* _flatten_templates
\* ------------------------------------------------------------------------
\* A template object is a number; graph.name[o] is its name and
\* graph.groups[o] its test parameter groups, each the sequence of the
\* templates its parameters take their values from (their sources);
\* graph.added[o] are the groups its prepare_test hook adds.
MaxTemplates == 4
Objects == 1..MaxTemplates
TemplateNames == <<"A", "B", "C", "D", "E", "F">>

\* TestParameterGroup.dependencies(): the sources, one per name; a name met
\* again keeps its place and takes the later source
dependencies(g, group) ==
    LET ps == LastWins([i \in DOMAIN group |-> KV(g.name[group[i]], group[i])])
    IN  [i \in DOMAIN ps |-> ps[i].v]

\* dict[key] = value
SetItem(d, key, value) ==
    IF HasKey(d, key) THEN Put(d, key, value)
    ELSE [d EXCEPT !.pairs = Append(d.pairs, KV(key, value))]

\* the dependencies found below a template are dropped
UpdateDropped(a, b) == a

\* a.update(b)
Update(a, b) ==
    LET fresh(p) == ~HasKey(a, p.k)
        kept == [i \in DOMAIN a.pairs |->
                    IF HasKey(b, a.pairs[i].k)
                    THEN KV(a.pairs[i].k, Get(b, a.pairs[i].k))
                    ELSE a.pairs[i]]
    IN  [a EXCEPT !.pairs = kept \o SelectSeq(b.pairs, fresh)]

\* a hook that is not run: the groups are read as they were before it
prepare_test_skipped(g, templ) == g.groups[templ]

\* templ.prepare_test() and then templ.get_test_parameter_groups(): the
\* groups of the template once its hook has run
prepare_test(g, templ) == g.groups[templ] \o g.added[templ]

\* the depth of nested calls the interpreter allows; a graph without a
\* cycle never nests deeper than its number of templates
RecursionLimit == MaxTemplates + 1
RecursionError == [t |-> "RecursionError"]

RECURSIVE FlattenTemplates(_, _, _, _)
RECURSIVE FlattenGroups(_, _, _, _)

\* the loop over a template's test parameter groups, in a call nested
\* depth deep
FlattenGroups(g, flat, groups, depth) ==
    IF groups = <<>> THEN flat
    ELSE LET deps == dependencies(g, Head(groups))
             below == FlattenTemplates(g, PyDict(<<>>), deps, depth + 1)
         IN  IF deps = <<>>
             THEN FlattenGroups(g, flat, Tail(groups), depth)
             ELSE IF below.t = "RecursionError" THEN RecursionError
             ELSE FlattenGroups(g, Update(flat, below), Tail(groups), depth)

\* the loop over templates, entered with flattened_templ = flat
FlattenTemplates(g, flat, templs, depth) ==
    IF depth > RecursionLimit THEN RecursionError
    ELSE IF templs = <<>> THEN flat
    ELSE LET templ == Head(templs)
             groups == prepare_test(g, templ)
             first == IF ~HasKey(flat, g.name[templ])
                      THEN SetItem(flat, g.name[templ], templ)
                      ELSE flat
             after == FlattenGroups(g, first, groups, depth)
         IN  IF after.t = "RecursionError" THEN RecursionError
             ELSE FlattenTemplates(g, after, Tail(templs), depth)

\* the flattened dict, or the error that ends the call
_recurse_dependencies(g, templs) ==
    FlattenTemplates(g, PyDict(<<>>), templs, 1)

\* the values of the flattened dict, in its order
_flatten_templates(g, templs) ==
    LET flat == _recurse_dependencies(g, templs)
    IN  [i \in DOMAIN flat.pairs |-> flat.pairs[i].v]

\* the groups a template may have: its sources are templates made after it,
\* so no template depends on itself
GroupsOf(o) ==
    LET later == {p \in Objects : p > o}
        two == {q \in later \X later : q[1] # q[2]}
    IN  {<<>>}
        \cup {<<<<x>>>> : x \in later}
        \cup {<<<<q[1], q[2]>>>> : q \in two}
        \cup {<<<<q[1]>>, <<q[2]>>>> : q \in two}

\* every template has a name of its own, or two of them share one
Namings ==
    {[o \in Objects |-> TemplateNames[o]]}
    \cup {[o \in Objects |-> TemplateNames[IF o = q[2] THEN q[1] ELSE o]] :
            q \in {r \in Objects \X Objects : r[1] < r[2]}}

\* the groups of the templates 1..o
RECURSIVE GroupsUpTo(_)
GroupsUpTo(o) ==
    IF o = 0 THEN {<<>>}
    ELSE {Append(gs, grp) : gs \in GroupsUpTo(o - 1), grp \in GroupsOf(o)}

Graphs ==
    {[name |-> n, groups |-> gs, added |-> [o \in Objects |-> <<>>]] :
        n \in Namings, gs \in GroupsUpTo(MaxTemplates)}

TemplateLists == {<<1>>} \cup {<<1, o>> : o \in Objects \ {1}}

InitFlatten ==
    /\ graph \in Graphs
    /\ templates \in TemplateLists
    /\ flattened_templ = PyDict(<<>>)
    /\ flat_pc = "start"
    /\ InitCompareIdle
    /\ InitPublishIdle
    /\ InitPollIdle
    /\ InitRaceIdle
    /\ InitCliIdle

\* Test.__init__: self.templates = _flatten_templates(templates)
Flatten ==
    /\ flat_pc = "start"
    /\ LET flat == _recurse_dependencies(graph, templates)
       IN  IF flat.t = "RecursionError"
           THEN /\ flat_pc' = "raised"
                /\ UNCHANGED flattened_templ
           ELSE /\ flat_pc' = "flattened"
                /\ flattened_templ' = flat
    /\ UNCHANGED <<graph, templates, cmpVars, pubVars, pollVars, raceVars,
                   cliVars>>

NextFlatten == Flatten

SpecFlatten == InitFlatten /\ [][NextFlatten]_vars

\* Templates whose hooks add dependencies: every template has a name of its
\* own, at most one group of one source, and a hook that adds at most one
\* group of one source
ChainGroupsOf(o) ==
    {<<>>} \cup {<<<<x>>>> : x \in {p \in Objects : p > o}}

RECURSIVE ChainsUpTo(_)
ChainsUpTo(o) ==
    IF o = 0 THEN {<<>>}
    ELSE {Append(gs, grp) : gs \in ChainsUpTo(o - 1), grp \in ChainGroupsOf(o)}

HookGraphs ==
    {[name |-> [o \in Objects |-> TemplateNames[o]], groups |-> gs,
      added |-> hs] :
        gs \in ChainsUpTo(MaxTemplates), hs \in ChainsUpTo(MaxTemplates)}

InitHook ==
    /\ graph \in HookGraphs
    /\ templates \in TemplateLists
    /\ flattened_templ = PyDict(<<>>)
    /\ flat_pc = "start"
    /\ InitCompareIdle
    /\ InitPublishIdle
    /\ InitPollIdle
    /\ InitRaceIdle
    /\ InitCliIdle

SpecHook == InitHook /\ [][NextFlatten]_vars

\* Templates whose one source may be any template, themselves included, so
\* that the dependencies may form a cycle
CyclicGraphs ==
    {[name |-> [o \in Objects |-> TemplateNames[o]], groups |-> gs,
      added |-> [o \in Objects |-> <<>>]] :
        gs \in [Objects -> {<<>>} \cup {<<<<x>>>> : x \in Objects}]}

InitCycle ==
    /\ graph \in CyclicGraphs
    /\ templates \in TemplateLists
    /\ flattened_templ = PyDict(<<>>)
    /\ flat_pc = "start"
    /\ InitCompareIdle
    /\ InitPublishIdle
    /\ InitPollIdle
    /\ InitRaceIdle
    /\ InitCliIdle

SpecCycle == InitCycle /\ [][NextFlatten]_vars

\* ------------------------------------------------------------------------
\* Properties of _flatten_templates
\* ------------------------------------------------------------------------
\* the templates a template depends on
DepsOf(g, o) == UNION {Range(g.groups[o][i]) : i \in DOMAIN g.groups[o]}

\* the templates reachable from a set of templates
RECURSIVE Reachable(_, _)
Reachable(g, S) ==
    LET T == S \cup UNION {DepsOf(g, o) : o \in S}
    IN  IF T = S THEN S ELSE Reachable(g, T)

NamesOf(g, S) == {g.name[o] : o \in S}

\* the names form a graph: templates of one name depend on the same names
NameConsistent(g) ==
    \A a \in Objects, b \in Objects :
        g.name[a] = g.name[b]
            => NamesOf(g, DepsOf(g, a)) = NamesOf(g, DepsOf(g, b))

\* A depends on B and C, which both depend on D
Diamond(g) ==
    /\ g.name[1] = "A" /\ g.name[2] = "B" /\ g.name[3] = "C"
    /\ g.name[4] = "D"
    /\ DepsOf(g, 1) = {2, 3}
    /\ DepsOf(g, 2) = {4}
    /\ DepsOf(g, 3) = {4}
    /\ DepsOf(g, 4) = {}

\* C17: flattening an acyclic graph yields the names reachable from the
\* templates passed in, each name once; on the diamond A -> B, A -> C,
\* B -> D, C -> D it yields A, B, C and D.
C17_FlattenYieldsReachableNames ==
    (flat_pc = "flattened" /\ NameConsistent(graph))
        => /\ Keys(flattened_templ)
                 = NamesOf(graph, Reachable(graph, Range(templates)))
           /\ Cardinality(Keys(flattened_templ)) = Len(flattened_templ.pairs)
           /\ (Diamond(graph) /\ templates = <<1>>)
                 => /\ Keys(flattened_templ) = {"A", "B", "C", "D"}
                    /\ Len(flattened_templ.pairs) = 4

C17_Witness ==
    /\ flat_pc = "flattened"
    /\ Diamond(graph)
    /\ templates = <<1>>
    /\ Len(flattened_templ.pairs) = 4

\* the templates in the order the traversal meets them
RECURSIVE Traversal(_, _)
RECURSIVE TraversalOfGroups(_, _)
TraversalOfGroups(g, groups) ==
    IF groups = <<>> THEN <<>>
    ELSE Traversal(g, dependencies(g, Head(groups)))
            \o TraversalOfGroups(g, Tail(groups))

Traversal(g, templs) ==
    IF templs = <<>> THEN <<>>
    ELSE <<Head(templs)>>
            \o TraversalOfGroups(g, g.groups[Head(templs)]
                                        \o g.added[Head(templs)])
            \o Traversal(g, Tail(templs))

FirstNamed(g, met, name) ==
    met[CHOOSE i \in DOMAIN met :
           /\ g.name[met[i]] = name
           /\ \A j \in 1..(i - 1) : g.name[met[j]] # name]

\* C18: of two template objects with one name, the flattened set keeps the
\* one the traversal meets first.
C18_FirstOccurrenceWins ==
    flat_pc = "flattened"
        => \A i \in DOMAIN flattened_templ.pairs :
              flattened_templ.pairs[i].v
                 = FirstNamed(graph, Traversal(graph, templates),
                              flattened_templ.pairs[i].k)

\* ------------------------------------------------------------------------
\* Two runs publishing one name to a shared destination
\* ------------------------------------------------------------------------
\* the length of a text: the tokens of its syntax and its whitespace; the
\* texts that do not decode are told apart by their length
RECURSIVE SynSize(_)
SynSize(syn) ==
    CASE syn.t = "list" ->
            LET sizes == [i \in DOMAIN syn.items |-> SynSize(syn.items[i])]
                sum[i \in 0..Len(sizes)] ==
                    IF i = 0 THEN 0 ELSE sum[i - 1] + sizes[i]
            IN  2 + sum[Len(sizes)]
      [] syn.t = "dict" ->
            LET sizes == [i \in DOMAIN syn.pairs |->
                             1 + SynSize(syn.pairs[i].v)]
                sum[i \in 0..Len(sizes)] ==
                    IF i = 0 THEN 0 ELSE sum[i - 1] + sizes[i]
            IN  2 + sum[Len(sizes)]
      [] OTHER -> 1

RECURSIVE Size(_)
Size(text) ==
    IF text.ok THEN SynSize(text.syn) + text.layout
    ELSE IF "over" \in DOMAIN text THEN Size(text.over)
    ELSE text.id

\* a file opened with 'w+' is empty
EmptyText == BadText("Expecting value", 0)

\* the text written at offset 0 over a longer text: its bytes, then the
\* rest of the text it was written over
Mixed(written, over) ==
    [ok |-> FALSE, msg |-> "Extra data", written |-> written, over |-> over]

\* the file after a buffered write is flushed at offset 0
Flushed(file, contents) ==
    IF file # Absent /\ Size(file) > Size(contents)
    THEN Mixed(contents, file)
    ELSE contents

RaceName == Path(FALSE, <<"ec2.template">>)

RaceTexts ==
    { JsonText(PyDict(<<Resources(1)>>), 0),
      JsonText(PyDict(<<Resources(2)>>), 0),
      JsonText(PyDict(<<Volatile("abc"), Resources(2)>>), 0) }

Run(pc, contents) == [pc |-> pc, contents |-> contents]

InitRace ==
    /\ publisher \in Publishers
    /\ \E original \in RaceTexts \cup {Absent}, X \in RaceTexts,
          Y \in RaceTexts :
          /\ dest = Holding(publisher, RaceName, original)
          /\ runs = [original |-> original,
                     wrote |-> <<>>,
                     of |-> <<Run("check", X), Run("check", Y)>>]
    /\ last_call = [op |-> "none"]
    /\ InitCompareIdle
    /\ InitPollIdle
    /\ InitFlattenIdle
    /\ InitCliIdle

\* publish_file up to the return of self.newer
RaceCheck(i) ==
    /\ runs.of[i].pc = "check"
    /\ LET check == PublishCheck(publisher, dest, RaceName,
                                 runs.of[i].contents, "none")
       IN  runs' = [runs EXCEPT !.of[i].pc =
                       CASE check = "raised" -> "failed"
                         [] check = "false" -> "done"
                         [] publisher.kind = "s3" -> "put"
                         [] OTHER -> "open"]
    /\ UNCHANGED <<publisher, dest, last_call, cmpVars, pollVars, flatVars,
                   cliVars>>

\* S3Publisher.publish_file: put_object
RacePut(i) ==
    /\ runs.of[i].pc = "put"
    /\ dest' = Store(dest, Target(publisher, RaceName), runs.of[i].contents)
    /\ runs' = [runs EXCEPT !.of[i].pc = "done", !.wrote = Append(@, i)]
    /\ UNCHANGED <<publisher, last_call, cmpVars, pollVars, flatVars,
                   cliVars>>

\* LocalPublisher.publish_file: open(file_path, 'w+') truncates the file
RaceOpen(i) ==
    /\ runs.of[i].pc = "open"
    /\ dest' = Store(dest, Target(publisher, RaceName), EmptyText)
    /\ runs' = [runs EXCEPT !.of[i].pc = "close"]
    /\ UNCHANGED <<publisher, last_call, cmpVars, pollVars, flatVars,
                   cliVars>>

\* LocalPublisher.publish_file: fil.write buffers the contents, leaving the
\* with block closes the file and flushes them at offset 0
RaceClose(i) ==
    /\ runs.of[i].pc = "close"
    /\ dest' = Store(dest, Target(publisher, RaceName),
                     Flushed(Content(dest, Target(publisher, RaceName)),
                             runs.of[i].contents))
    /\ runs' = [runs EXCEPT !.of[i].pc = "done", !.wrote = Append(@, i)]
    /\ UNCHANGED <<publisher, last_call, cmpVars, pollVars, flatVars,
                   cliVars>>

NextRace ==
    \E i \in 1..2 : RaceCheck(i) \/ RacePut(i) \/ RaceOpen(i) \/ RaceClose(i)

SpecRace == InitRace /\ [][NextRace]_vars

\* C19: when both runs have ended, neither has raised, and the destination
\* holds the contents of the run that wrote last, or the original contents
\* when neither wrote; it never holds a mixed or missing object.
C19_LastWriteWins ==
    (\A i \in 1..2 : runs.of[i].pc \in {"done", "failed"})
        => /\ \A i \in 1..2 : runs.of[i].pc = "done"
           /\ Content(dest, Target(publisher, RaceName))
                 = IF runs.wrote = <<>> THEN runs.original
                   ELSE runs.of[runs.wrote[Len(runs.wrote)]].contents

\* ------------------------------------------------------------------------
\* One run of the command line: _execute, Test.run, Test.cleanup
\* ------------------------------------------------------------------------
ArgSets ==
    [test : BOOLEAN, dry_test : BOOLEAN, debug : BOOLEAN,
     cleanup : {"never", "failure", "pass"}, no_publish : BOOLEAN,
     document : BOOLEAN]

\* the package: templates 1 and 2, without dependencies or with template 1
\* taking test parameters from templates 2 and 3
CliGraphs ==
    {[name |-> [o \in Objects |-> TemplateNames[o]], groups |-> gs,
      added |-> [o \in Objects |-> <<>>]] :
        gs \in {[o \in Objects |-> <<>>],
                [o \in Objects |-> IF o = 1 THEN <<<<2, 3>>>> ELSE <<>>]}}

\* what the loop over templates.items() may find changed
UpdatedLists == {<<>>, <<1>>, <<1, 2>>}

ParentName == "master.template"

\* the names Test.run uploads, in its order
UploadNames(g, flat) ==
    <<ParentName>> \o [i \in DOMAIN flat.pairs |-> g.name[flat.pairs[i].v]]

\* parent_template() and templ.generate(testing=True)
TestText(i) == JsonText(PyDict(<<Resources(i)>>), 0)

CleanupCalls ==
    <<"list_objects", "delete_objects", "delete_bucket", "delete_stack">>

\* Test.cleanup() makes its remote calls also on a dry run
cleanupIgnoresDryRun(dry, calls, failed) ==
    calls \o (IF failed = 0 THEN CleanupCalls
              ELSE SubSeq(CleanupCalls, 1, failed))

\* Test.cleanup(): the remote calls after it; the call numbered failed
\* raises (0: none does)
cleanup(dry, calls, failed) ==
    IF dry THEN calls
    ELSE calls \o (IF failed = 0 THEN CleanupCalls
                   ELSE SubSeq(CleanupCalls, 1, failed))

\* the test bucket after Test.cleanup()
AfterCleanup(dry, stg, failed) ==
    IF dry \/ failed \in 1..2 THEN stg ELSE <<>>

CleanupRaises(dry, failed) == ~dry /\ failed # 0

\* the condition under which _execute calls test.cleanup() after the run
CleanupDue(a, passed) ==
    /\ ~a.debug
    /\ \/ a.cleanup = "pass"
       \/ a.cleanup = "failure" /\ passed
       \/ a.cleanup = "failure" /\ ~passed

\* every template of the package is published, changed or not
PublishListAll(a, ut, ud) ==
    <<<<"template", 1>>, <<"template", 2>>>>

\* the publish_file calls of _execute
PublishList(a, ut, ud) ==
    [i \in DOMAIN ut |-> <<"template", ut[i]>>]
        \o (IF a.document THEN [i \in DOMAIN ud |-> <<"document", ud[i]>>]
            ELSE <<>>)

InitCli ==
    /\ args \in ArgSets
    /\ graph \in CliGraphs
    /\ cli_pc = "compare"
    /\ updated_templates = <<>>
    /\ updated_documentation = <<>>
    /\ test_passed = TRUE
    /\ test_publisher = [kind |-> "none"]
    /\ stage = <<>>
    /\ uploaded = 0
    /\ remote_calls = <<>>
    /\ cleanups = 0
    /\ publish_calls = <<>>
    /\ exit_code = "running"
    /\ templates = <<>>
    /\ flattened_templ = PyDict(<<>>)
    /\ flat_pc = "idle"
    /\ InitCompareIdle
    /\ InitPublishIdle
    /\ InitPollIdle
    /\ InitRaceIdle

\* _execute up to the return when nothing changed
Compare ==
    /\ cli_pc = "compare"
    /\ \E ut \in UpdatedLists, ud \in UpdatedLists, raised \in BOOLEAN :
          /\ ~args.document => ud = <<>>
          /\ raised => ut = <<>> /\ ud = <<>>
          /\ updated_templates' = ut
          /\ updated_documentation' = ud
          /\ IF raised
             THEN cli_pc' = "exited" /\ exit_code' = 1
             ELSE IF ut = <<>> /\ ud = <<>>
             THEN cli_pc' = "exited" /\ exit_code' = 0
             ELSE cli_pc' = "gate" /\ UNCHANGED exit_code
    /\ UNCHANGED <<args, test_passed, test_publisher, stage, uploaded,
                   remote_calls, cleanups, publish_calls, cmpVars, pubVars,
                   pollVars, flatVars, raceVars>>

\* test_passed = True; if args.test and updated_templates: Test(...)
StartTest ==
    /\ cli_pc = "gate"
    /\ IF args.test /\ updated_templates # <<>>
       THEN /\ templates' = updated_templates
            /\ flattened_templ' = _recurse_dependencies(graph,
                                                        updated_templates)
            /\ flat_pc' = "flattened"
            /\ test_publisher' =
                  IF args.dry_test
                  THEN [kind |-> "local",
                        path |-> Path(TRUE, Cwd \o <<"bucket">>)]
                  ELSE [kind |-> "s3", path |-> Path(FALSE, <<>>)]
            /\ cli_pc' = IF args.dry_test THEN "upload" ELSE "bucket"
       ELSE /\ cli_pc' = "publish"
            /\ UNCHANGED <<templates, flattened_templ, flat_pc,
                           test_publisher>>
    /\ UNCHANGED <<args, graph, updated_templates, updated_documentation,
                   test_passed, stage, uploaded, remote_calls, cleanups,
                   publish_calls, exit_code, cmpVars, pubVars, pollVars,
                   raceVars>>

\* Test.run: create_bucket
CreateBucket ==
    /\ cli_pc = "bucket"
    /\ remote_calls' = Append(remote_calls, "create_bucket")
    /\ cli_pc' = "upload"
    /\ UNCHANGED <<args, updated_templates, updated_documentation,
                   test_passed, test_publisher, stage, uploaded, cleanups,
                   publish_calls, exit_code, cmpVars, pubVars, pollVars,
                   flatVars, raceVars>>

\* Test.run: one self.publisher.publish_file call, and the return of a dry
\* run after the last one
Upload ==
    /\ cli_pc = "upload"
    /\ LET names == UploadNames(graph, flattened_templ)
           r == publish_file(test_publisher, stage,
                             Path(FALSE, <<names[uploaded + 1]>>),
                             TestText(uploaded), "none")
       IN  /\ stage' = r.dest
           /\ uploaded' = uploaded + 1
           /\ IF r.newer = "raised"
              THEN /\ cli_pc' = "exited"
                   /\ exit_code' = 1
                   /\ UNCHANGED test_passed
              ELSE IF uploaded + 1 < Len(names)
              THEN UNCHANGED <<cli_pc, exit_code, test_passed>>
              ELSE IF args.dry_test
              THEN /\ cli_pc' = "policy"
                   /\ test_passed' = TRUE
                   /\ UNCHANGED exit_code
              ELSE /\ cli_pc' = "stack"
                   /\ UNCHANGED <<exit_code, test_passed>>
    /\ UNCHANGED <<args, updated_templates, updated_documentation,
                   test_publisher, remote_calls, cleanups, publish_calls,
                   cmpVars, pubVars, pollVars, flatVars, raceVars>>

\* Test.run: _build_stack, and the entry of _wait_results
BuildStack ==
    /\ cli_pc = "stack"
    /\ remote_calls' = Append(remote_calls, "create_stack")
    /\ cli_pc' = "wait"
    /\ poll_pc' = "poll"
    /\ UNCHANGED <<stack_failure, observed, logged, run_result, args,
                   updated_templates, updated_documentation, test_passed,
                   test_publisher, stage, uploaded, cleanups, publish_calls,
                   exit_code, cmpVars, pubVars, flatVars, raceVars>>

\* test_passed = test.run(): _wait_results has returned, its frame is gone
RunReturns ==
    /\ cli_pc = "wait"
    /\ poll_pc = "returned"
    /\ test_passed' = run_result
    /\ cli_pc' = "policy"
    /\ poll_pc' = "idle"
    /\ stack_failure' = FALSE
    /\ observed' = <<>>
    /\ logged' = 0
    /\ run_result' = FALSE
    /\ UNCHANGED <<args, updated_templates, updated_documentation,
                   test_publisher, stage, uploaded, remote_calls, cleanups,
                   publish_calls, exit_code, cmpVars, pubVars, flatVars,
                   raceVars>>

InRun == cli_pc \in {"bucket", "upload", "stack", "wait"}

\* an interrupt during test.run() that ends the process without cleanup
InterruptUncaught ==
    /\ InRun
    /\ cli_pc' = "interrupted"
    /\ exit_code' = 1
    /\ poll_pc' = "idle"
    /\ stack_failure' = FALSE
    /\ observed' = <<>>
    /\ logged' = 0
    /\ run_result' = FALSE
    /\ UNCHANGED <<args, updated_templates, updated_documentation,
                   test_passed, test_publisher, stage, uploaded,
                   remote_calls, cleanups, publish_calls, cmpVars, pubVars,
                   flatVars, raceVars>>

\* KeyboardInterrupt, or the SystemExit of signal_term_handler, raised
\* inside test.run(): test.cleanup(), then sys.exit(1)
Interrupt ==
    /\ InRun
    /\ \E failed \in 0..Len(CleanupCalls) :
          /\ args.dry_test => failed = 0
          /\ remote_calls' = cleanup(args.dry_test, remote_calls, failed)
          /\ stage' = AfterCleanup(args.dry_test, stage, failed)
    /\ cleanups' = cleanups + 1
    /\ cli_pc' = "interrupted"
    /\ exit_code' = 1
    /\ poll_pc' = "idle"
    /\ stack_failure' = FALSE
    /\ observed' = <<>>
    /\ logged' = 0
    /\ run_result' = FALSE
    /\ UNCHANGED <<args, updated_templates, updated_documentation,
                   test_passed, test_publisher, uploaded, publish_calls,
                   cmpVars, pubVars, flatVars, raceVars>>

\* any other exception raised inside test.run() leaves _execute uncaught
RunRaises ==
    /\ InRun
    /\ cli_pc' = "exited"
    /\ exit_code' = 1
    /\ poll_pc' = "idle"
    /\ stack_failure' = FALSE
    /\ observed' = <<>>
    /\ logged' = 0
    /\ run_result' = FALSE
    /\ UNCHANGED <<args, updated_templates, updated_documentation,
                   test_passed, test_publisher, stage, uploaded,
                   remote_calls, cleanups, publish_calls, cmpVars, pubVars,
                   flatVars, raceVars>>

\* if not args.debug: ... test.cleanup()
CleanupPolicy ==
    /\ cli_pc = "policy"
    /\ IF CleanupDue(args, test_passed)
       THEN \E failed \in 0..Len(CleanupCalls) :
               /\ args.dry_test => failed = 0
               /\ remote_calls' = cleanup(args.dry_test, remote_calls,
                                          failed)
               /\ stage' = AfterCleanup(args.dry_test, stage, failed)
               /\ cleanups' = cleanups + 1
               /\ IF CleanupRaises(args.dry_test, failed)
                  THEN cli_pc' = "exited" /\ exit_code' = 1
                  ELSE cli_pc' = "publish" /\ UNCHANGED exit_code
       ELSE /\ cli_pc' = "publish"
            /\ UNCHANGED <<remote_calls, stage, cleanups, exit_code>>
    /\ UNCHANGED <<args, updated_templates, updated_documentation,
                   test_passed, test_publisher, uploaded, publish_calls,
                   cmpVars, pubVars, pollVars, flatVars, raceVars>>

\* the templates and documents are published whatever the test returned
PublishUngated ==
    /\ cli_pc = "publish"
    /\ publish_calls' = PublishList(args, updated_templates,
                                    updated_documentation)
    /\ exit_code' = IF test_passed THEN 0 ELSE 1
    /\ cli_pc' = "exited"
    /\ UNCHANGED <<args, updated_templates, updated_documentation,
                   test_passed, test_publisher, stage, uploaded,
                   remote_calls, cleanups, cmpVars, pubVars, pollVars,
                   flatVars, raceVars>>

\* if test_passed: publish (a publish_file call that raises ends the
\* process) else: sys.exit(1)
Publish ==
    /\ cli_pc = "publish"
    /\ LET all == PublishList(args, updated_templates,
                              updated_documentation)
       IN  IF ~test_passed
           THEN exit_code' = 1 /\ UNCHANGED publish_calls
           ELSE IF args.no_publish
           THEN exit_code' = 0 /\ UNCHANGED publish_calls
           ELSE \E made \in 1..Len(all), raised \in BOOLEAN :
                   /\ made < Len(all) => raised
                   /\ publish_calls' = SubSeq(all, 1, made)
                   /\ exit_code' = IF raised THEN 1 ELSE 0
    /\ cli_pc' = "exited"
    /\ UNCHANGED <<args, updated_templates, updated_documentation,
                   test_passed, test_publisher, stage, uploaded,
                   remote_calls, cleanups, cmpVars, pubVars, pollVars,
                   flatVars, raceVars>>

NextCli ==
    \/ Compare
    \/ StartTest
    \/ CreateBucket
    \/ Upload
    \/ BuildStack
    \/ Poll
    \/ Sleep
    \/ RunReturns
    \/ Interrupt
    \/ RunRaises
    \/ CleanupPolicy
    \/ Publish

SpecCli == InitCli /\ [][NextCli]_vars

C15_ValidationGatesPublishing ==
    /\ ~test_passed => /\ args.test
                       /\ test_publisher.kind # "none"
                       /\ publish_calls = <<>>
                       /\ cli_pc = "exited" => exit_code = 1
    /\ publish_calls # <<>> => test_passed

C15_Witness ==
    /\ cli_pc = "exited"
    /\ ~test_passed
    /\ ~args.no_publish
    /\ args.document
    /\ updated_documentation # <<>>
    /\ publish_calls = <<>>
    /\ exit_code = 1

\* what the staging directory holds once run() has made all its uploads
Staged ==
    LET names == UploadNames(graph, flattened_templ)
    IN  \A i \in DOMAIN names :
            Content(stage, Target(test_publisher, Path(FALSE, <<names[i]>>)))
               = TestText(i - 1)

\* C16: on a dry run, run() creates no bucket and no stack and never asks
\* for the stack status; it stages the parent and every flattened template
\* through the local publisher and returns true; cleanup() makes no remote
\* call and deletes nothing.
C16_DryRun ==
    (args.dry_test /\ test_publisher.kind # "none")
        => /\ test_publisher.kind = "local"
           /\ remote_calls = <<>>
           /\ poll_pc = "idle" /\ observed = <<>>
           /\ test_passed
           /\ cli_pc \in {"policy", "publish"}
                 => uploaded = Len(UploadNames(graph, flattened_templ))
           /\ uploaded = Len(UploadNames(graph, flattened_templ)) => Staged

C16_Witness ==
    /\ args.dry_test
    /\ cli_pc = "exited"
    /\ exit_code = 0
    /\ cleanups = 1
    /\ Len(flattened_templ.pairs) = 3
    /\ uploaded = 4
    /\ Staged
    /\ remote_calls = <<>>

\* C21: the poll that observes ROLLBACK_FAILED is the last one: no status
\* is asked for and no sleep is made after it, and the result is false.
C21_RollbackFailedEndsPolling ==
    \A i \in DOMAIN observed :
        observed[i] = <<"ROLLBACK", "FAILED">>
            => /\ i = Len(observed)
               /\ poll_pc = "returned"
               /\ ~run_result

C21_Witness ==
    /\ Len(observed) >= 2
    /\ observed[1] = <<"CREATE", "IN", "PROGRESS">>
    /\ observed[Len(observed)] = <<"ROLLBACK", "FAILED">>
    /\ poll_pc = "returned"
    /\ ~run_result

\* C22: _log_failed_stacks is called once, at the first poll that observes
\* a status holding ROLLBACK, and in every run that observes one, also
\* when the first such status is ROLLBACK_COMPLETE or ROLLBACK_FAILED.
C22_DiagnosticsExactlyOnce ==
    logged = IF \E i \in DOMAIN observed : Mentions("ROLLBACK", observed[i])
             THEN 1 ELSE 0

\* C23: after a validation run that completed, without the debug flag:
\* policy 'never' never calls cleanup, policy 'failure' calls it iff the
\* validation failed, the default policy 'pass' calls it whatever the
\* outcome; with the debug flag cleanup is not called under any policy.
C23_CleanupPolicy ==
    (cli_pc = "publish" /\ test_publisher.kind # "none")
        => cleanups =
              IF /\ ~args.debug
                 /\ \/ args.cleanup = "pass"
                    \/ args.cleanup = "failure" /\ ~test_passed
              THEN 1 ELSE 0

\* C26: publish_file is called only for names whose newer check answered
\* true, the validation run is given exactly the templates whose check
\* answered true, and when no template and no document changed the run
\* validates nothing and writes nothing.
C26_OnlyChangedArtifacts ==
    /\ \A i \in DOMAIN publish_calls :
          /\ publish_calls[i][1] = "template"
                => publish_calls[i][2] \in Range(updated_templates)
          /\ publish_calls[i][1] = "document"
                => publish_calls[i][2] \in Range(updated_documentation)
    /\ test_publisher.kind # "none"
          => templates = updated_templates /\ updated_templates # <<>>
    /\ (/\ cli_pc # "compare"
        /\ updated_templates = <<>>
        /\ updated_documentation = <<>>)
          => /\ cli_pc = "exited"
             /\ test_publisher.kind = "none"
             /\ uploaded = 0
             /\ remote_calls = <<>>
             /\ publish_calls = <<>>

C26_Witness ==
    /\ cli_pc = "exited"
    /\ exit_code = 0
    /\ updated_templates = <<1>>
    /\ updated_documentation = <<1, 2>>
    /\ test_publisher.kind = "s3"
    /\ templates = <<1>>
    /\ publish_calls = <<<<"template", 1>>, <<"document", 1>>,
                         <<"document", 2>>>>

\* ------------------------------------------------------------------------
\* Further properties of the comparison
\* ------------------------------------------------------------------------
IsScalar(x) == x.t \notin {"list", "dict", "OrderedDict"}

\* two mappings with the same keys and values but for one key, under which
\* they hold scalars of different types
DifferByScalarType(a, b) ==
    /\ IsDict(a) /\ IsDict(b)
    /\ Keys(a) = Keys(b)
    /\ \E key \in Keys(a) :
          /\ IsScalar(Get(a, key)) /\ IsScalar(Get(b, key))
          /\ Get(a, key).t # Get(b, key).t
          /\ \A other \in Keys(a) \ {key} : Get(a, other) = Get(b, other)

\* C27: scalars of different types ("1" and 1, true and 1, 1 and 1.0) are
\* reported as different, at top level and under one key of otherwise
\* identical mappings, whichever of the two is the candidate.
C27_NoScalarCoercion ==
    (/\ cmp_pc = "compared"
     /\ ~cmp_stripped
     /\ \/ /\ IsScalar(arg_new) /\ IsScalar(arg_current)
           /\ arg_new.t # arg_current.t
        \/ DifferByScalarType(arg_new, arg_current))
        => cmp_result = TRUE

\* what a document keeps of itself outside the volatile block: its other
\* top-level keys and the other sub-keys of its Metadata section
KeptOutsideVolatile(before, after) ==
    /\ Keys(after) \subseteq Keys(before)
    /\ \A key \in Keys(before) \ {"Metadata"} :
          HasKey(after, key) /\ Get(after, key) = Get(before, key)
    /\ HasKey(after, "Metadata") =>
          LET was == Get(before, "Metadata")
              is == Get(after, "Metadata")
          IN  /\ Keys(is) = Keys(was) \ {TOPLEVEL_METADATA_KEY}
              /\ \A sub \in Keys(is) : Get(is, sub) = Get(was, sub)

\* C30: remove_metadata changes nothing but the volatile block: both
\* documents keep every other top-level key and every other Metadata
\* sub-key with its value; the existing document keeps its Metadata
\* section, and the candidate loses its section exactly when the section
\* is empty after stripping and the existing document has none.
C30_FrameOfRemoveMetadata ==
    cmp_pc = "stripped" =>
        /\ KeptOutsideVolatile(arg_current, current_template)
        /\ KeptOutsideVolatile(arg_new, new_template)
        /\ HasKey(current_template, "Metadata")
              <=> HasKey(arg_current, "Metadata")
        /\ HasKey(arg_new, "Metadata") =>
              (~HasKey(new_template, "Metadata")
                  <=> /\ ~HasKey(arg_current, "Metadata")
                      /\ Keys(Get(arg_new, "Metadata"))
                            \subseteq {TOPLEVEL_METADATA_KEY})

C30_Witness ==
    /\ cmp_pc = "stripped"
    /\ HasKey(arg_new, "Metadata")
    /\ Keys(Get(arg_new, "Metadata")) = {TOPLEVEL_METADATA_KEY, "Other"}
    /\ HasKey(arg_current, "Metadata")
    /\ HasKey(Get(arg_current, "Metadata"), TOPLEVEL_METADATA_KEY)
    /\ HasKey(new_template, "Metadata")
    /\ Keys(Get(new_template, "Metadata")) = {"Other"}
    /\ HasKey(current_template, "Metadata")
    /\ HasKey(new_template, "Resources")

\* ------------------------------------------------------------------------
\* The hook and cycles in _flatten_templates
\* ------------------------------------------------------------------------
\* the templates a template depends on once its hook has added its groups
HookDepsOf(g, o) ==
    DepsOf(g, o) \cup UNION {Range(g.added[o][i]) : i \in DOMAIN g.added[o]}

RECURSIVE HookReachable(_, _)
HookReachable(g, S) ==
    LET T == S \cup UNION {HookDepsOf(g, o) : o \in S}
    IN  IF T = S THEN S ELSE HookReachable(g, T)

\* C24: the dependencies of a visited template are read after its
\* prepare_test hook has run, so the flattened set holds every template
\* reachable through the groups the templates have and the groups their
\* hooks add, the added dependencies' own hooks included.
C24_HookDependenciesDiscovered ==
    flat_pc = "flattened"
        => /\ Keys(flattened_templ)
                 = NamesOf(graph, HookReachable(graph, Range(templates)))
           /\ \A o \in HookReachable(graph, Range(templates)) :
                 Get(flattened_templ, graph.name[o]) = o

\* template 1 has no dependency until its hook adds template 2, whose hook
\* adds template 3
C24_Witness ==
    /\ flat_pc = "flattened"
    /\ templates = <<1>>
    /\ graph.groups[1] = <<>> /\ graph.added[1] = <<<<2>>>>
    /\ graph.groups[2] = <<>> /\ graph.added[2] = <<<<3>>>>
    /\ {"A", "B", "C"} \subseteq Keys(flattened_templ)

\* C25: on a dependency graph with a cycle the traversal ends and returns
\* the names reachable from the templates passed in.
C25_CyclesTolerated ==
    flat_pc # "start"
        => /\ flat_pc = "flattened"
           /\ Keys(flattened_templ)
                 = NamesOf(graph, Reachable(graph, Range(templates)))

\* C28: when the stack settles on a final status, CREATE_FAILED and
\* DELETE_FAILED included, _wait_results eventually returns.
C28_PollingTerminates == <>(poll_pc = "returned")

\* ------------------------------------------------------------------------
\* Two validation runs in one account
\* ------------------------------------------------------------------------
\* time.strftime('%Y%m%d%H%M%S'): the second of the construction
Timestamps == {1, 2}
\* the ten characters drawn from random.SystemRandom()
Suffixes == {"a", "b", "c"}

\* Test.__init__: the names of the run's bucket and of its stack
NewTest(timestamp, suffix) ==
    [_bucket |-> <<"jetstream-test-", timestamp, "-", suffix>>,
     _stack_name |-> <<"JetstreamTest", timestamp>>,
     pc |-> "constructed"]

\* runs.tests are the Test objects in the order of their construction and
\* runs.stacks the stacks of the account, each with the run that created it;
\* runs.foreign holds the runs whose call reached a stack of another run.
InitNames ==
    /\ runs = [tests |-> <<>>, stacks |-> {}, foreign |-> {}]
    /\ InitCompareIdle
    /\ InitPublishIdle
    /\ InitPollIdle
    /\ InitFlattenIdle
    /\ InitCliIdle

\* Test(...): the clock does not run backwards
Construct ==
    /\ Len(runs.tests) < 2
    /\ \E timestamp \in Timestamps, suffix \in Suffixes :
          /\ \A i \in DOMAIN runs.tests :
                runs.tests[i]._stack_name[2] <= timestamp
          /\ runs' = [runs EXCEPT
                        !.tests = Append(@, NewTest(timestamp, suffix))]
    /\ UNCHANGED <<cmpVars, pubVars, pollVars, flatVars, cliVars>>

\* _build_stack: create_stack(StackName=self._stack_name) raises when the
\* account has a stack of that name
CreateStack(i) ==
    /\ runs.tests[i].pc = "constructed"
    /\ LET name == runs.tests[i]._stack_name
       IN  IF \E st \in runs.stacks : st.name = name
           THEN runs' = [runs EXCEPT !.tests[i].pc = "raised"]
           ELSE runs' = [runs EXCEPT
                           !.tests[i].pc = "built",
                           !.stacks = @ \cup {[name |-> name, by |-> i]}]
    /\ UNCHANGED <<cmpVars, pubVars, pollVars, flatVars, cliVars>>

\* cleanup: delete_stack(StackName=self._stack_name) deletes the stack of
\* that name, whichever run created it
DeleteStack(i) ==
    /\ runs.tests[i].pc \in {"constructed", "built", "raised"}
    /\ LET name == runs.tests[i]._stack_name
           gone == {st \in runs.stacks : st.name = name}
       IN  runs' = [runs EXCEPT
                      !.tests[i].pc = "cleaned",
                      !.stacks = @ \ gone,
                      !.foreign = @ \cup {<<i, st.by>> :
                                           st \in {q \in gone : q.by # i}}]
    /\ UNCHANGED <<cmpVars, pubVars, pollVars, flatVars, cliVars>>

NextNames ==
    \/ Construct
    \/ \E i \in DOMAIN runs.tests : CreateStack(i)
    \/ \E i \in DOMAIN runs.tests : DeleteStack(i)

SpecNames == InitNames /\ [][NextNames]_vars

\* C29: two runs constructed within one second, whose random suffixes
\* differ, share neither the name of their bucket nor the name of their
\* stack, and no run's cleanup reaches the stack of another run.
C29_RunsShareNoName ==
    /\ \A i \in DOMAIN runs.tests, j \in DOMAIN runs.tests :
          (/\ i # j
           /\ runs.tests[i]._stack_name[2] = runs.tests[j]._stack_name[2]
           /\ runs.tests[i]._bucket[4] # runs.tests[j]._bucket[4])
              => /\ runs.tests[i]._bucket # runs.tests[j]._bucket
                 /\ runs.tests[i]._stack_name # runs.tests[j]._stack_name
    /\ runs.foreign = {}

====
